---------------------------- MODULE Spec2Model ----------------------------
(***************************************************************************)
(* A model of cpio-tools: the newc archive codec (CpioArchive.open and     *)
(* CpioArchive.write), the entry container (CpioEntryContainer) and the    *)
(* session that wraps them (Cpio), as driven by the command loop of        *)
(* cpio-tools.py, with the directory Cpio.unpack writes into.              *)
(*                                                                         *)
(* Representation.  A Python str is a sequence of one-character strings,   *)
(* a Python bytes object is a sequence of integers 0..255, a path that is  *)
(* None is the string "None".  An OrderedDict is the sequence of its       *)
(* values in insertion order (every value carries its key in the field     *)
(* name).                                                                  *)
(***************************************************************************)
EXTENDS Integers, Sequences, FiniteSets, TLC

VARIABLES
    container,        \* Cpio._container: the OrderedDict, as a sequence of entries
    inode_next,       \* CpioEntryContainer._inode_next
    changes_pending,  \* Cpio._changes_pending
    use_gzip,         \* Cpio._use_gzip
    save_to,          \* Cpio._save_to: "None" or a file name
    files,            \* the file system the session reads and writes: name -> content
    pc,               \* where the process is: "running", "unwinding", "terminated"
    nops,             \* number of calls issued so far
    last,             \* the last call: its name, its arguments and how it ended
    prev,             \* the session's state when the last call was issued
    mutated,          \* history: a mutation succeeded since load or since the last write
    stream,           \* codec runs: the byte stream handed to CpioArchive.open
    opened,           \* codec runs: what open(stream) returned
    written,          \* codec runs: the bytes write(opened) produced
    reopened,         \* codec runs: what open(written) returned
    cpc,              \* codec runs: "start", "opened", "written", "reopened"
    output_directory, \* unpack runs: the directory unpack is given, and what is in it
    force,            \* unpack runs: the force argument of unpack
    upc,              \* unpack runs: "ready", then how unpack ended
    unpack_error,     \* unpack runs: the exception that left unpack, "" when none
    directory_before  \* unpack runs: the directory when unpack was called

vars == <<container, inode_next, changes_pending, use_gzip, save_to, files, pc,
          nops, last, prev, mutated, stream, opened, written, reopened, cpc,
          output_directory, force, upc, unpack_error, directory_before>>

sessionVars == <<container, inode_next, changes_pending, use_gzip, save_to, files,
                 pc, nops, last, prev, mutated>>

codecVars == <<stream, opened, written, reopened, cpc>>

unpackVars == <<output_directory, force, upc, unpack_error, directory_before>>

None == "None"

Min(a, b) == IF a < b THEN a ELSE b

Max(a, b) == IF a > b THEN a ELSE b

(***************************************************************************)
(* Integers as Python uses them in the codec: & and | on non-negative      *)
(* integers.                                                               *)
(***************************************************************************)
RECURSIVE BitAnd(_, _)
BitAnd(a, b) ==
    IF a = 0 \/ b = 0 THEN 0
    ELSE (a % 2) * (b % 2) + 2 * BitAnd(a \div 2, b \div 2)

RECURSIVE BitOr(_, _)
BitOr(a, b) ==
    IF a = 0 THEN b
    ELSE IF b = 0 THEN a
    ELSE Max(a % 2, b % 2) + 2 * BitOr(a \div 2, b \div 2)

\* class ModeMask
ModeMask_file_type == \o170000

ModeMask_permissions == \o7777

\* class FileTypes(enum.Enum): member name -> value
FileTypeNames ==
    {"directory", "named_pipe", "regular", "symlink", "block_device",
     "char_device", "socket"}

FileTypeValue(t) ==
    CASE t = "directory"    -> \o40000
      [] t = "named_pipe"   -> \o10000
      [] t = "regular"      -> \o100000
      [] t = "symlink"      -> \o120000
      [] t = "block_device" -> \o60000
      [] t = "char_device"  -> \o20000
      [] t = "socket"       -> \o140000

\* FileTypes(value): the member with that value; ValueError when there is none
IsFileTypeValue(v) == \E t \in FileTypeNames : FileTypeValue(t) = v

FileTypeOf(v) == CHOOSE t \in FileTypeNames : FileTypeValue(t) = v

(***************************************************************************)
(* str <-> bytes.  The characters the model's names are made of, with      *)
(* their code points; str.encode() and bytes.decode() map between them.    *)
(***************************************************************************)
Chars == {"e", "h", "n", "o", "x", "l", "/", ".", "T", "R", "A", "I", "L", "E", "!"}

Ord(c) ==
    CASE c = "e" -> 101 [] c = "h" -> 104 [] c = "n" -> 110 [] c = "o" -> 111
      [] c = "x" -> 120 [] c = "l" -> 108 [] c = "/" -> 47  [] c = "." -> 46
      [] c = "T" -> 84  [] c = "R" -> 82  [] c = "A" -> 65  [] c = "I" -> 73
      [] c = "L" -> 76  [] c = "E" -> 69  [] c = "!" -> 33

Chr(b) == CHOOSE c \in Chars : Ord(c) = b

IsText(bytes) == \A i \in 1..Len(bytes) : \E c \in Chars : Ord(c) = bytes[i]

Encode(s) == [i \in 1..Len(s) |-> Ord(s[i])]

Decode(bytes) == [i \in 1..Len(bytes) |-> Chr(bytes[i])]

Repeat(b, n) == [i \in 1..n |-> b]

(***************************************************************************)
(* f'{n:08x}'.encode(): lowercase hexadecimal, zero-padded to at least     *)
(* eight digits; int(field, 16): accepts both cases, ValueError otherwise. *)
(***************************************************************************)
HexChar(d) == IF d < 10 THEN 48 + d ELSE 87 + d

\* the eight digits, most significant first (every integer of the model is
\* below 16^8, so no ninth digit is ever needed)
Format08x(n) ==
    <<HexChar((n \div 268435456) % 16), HexChar((n \div 16777216) % 16),
      HexChar((n \div 1048576) % 16), HexChar((n \div 65536) % 16),
      HexChar((n \div 4096) % 16), HexChar((n \div 256) % 16),
      HexChar((n \div 16) % 16), HexChar(n % 16)>>

IsHexByte(b) ==
    \/ (b >= 48 /\ b <= 57)
    \/ (b >= 97 /\ b <= 102)
    \/ (b >= 65 /\ b <= 70)

HexVal(b) ==
    IF b <= 57 THEN b - 48
    ELSE IF b >= 97 THEN b - 87
    ELSE b - 55

IsHex(bytes) == Len(bytes) > 0 /\ \A i \in 1..Len(bytes) : IsHexByte(bytes[i])

RECURSIVE ParseHex(_)
ParseHex(bytes) ==
    IF Len(bytes) = 0 THEN 0
    ELSE 16 * ParseHex(SubSeq(bytes, 1, Len(bytes) - 1)) + HexVal(bytes[Len(bytes)])


(***************************************************************************)
(* class CpioNewcHeader: eleven fixed-width byte fields, serialized in     *)
(* declaration order (110 bytes).                                          *)
(***************************************************************************)
HeaderFields ==
    <<"c_magic", "c_ino", "c_mode", "c_uid", "c_gid", "c_nlink", "c_mtime",
      "c_filesize", "c_dev", "c_namesize", "c_check">>

FieldWidth(f) ==
    CASE f = "c_magic" -> 6
      [] f = "c_dev"   -> 32
      [] OTHER         -> 8

RECURSIVE FieldOffset(_)
FieldOffset(i) ==
    IF i = 1 THEN 0 ELSE FieldOffset(i - 1) + FieldWidth(HeaderFields[i - 1])

\* CpioNewcHeader.size()
HeaderSize == FieldOffset(Len(HeaderFields)) + FieldWidth(HeaderFields[Len(HeaderFields)])

FieldIndex(f) == CHOOSE i \in 1..Len(HeaderFields) : HeaderFields[i] = f

\* header.serialize()
Serialize(header) ==
    header.c_magic \o header.c_ino \o header.c_mode \o header.c_uid \o header.c_gid
    \o header.c_nlink \o header.c_mtime \o header.c_filesize \o header.c_dev
    \o header.c_namesize \o header.c_check

\* CpioNewcHeader.deserialize(file), given the 110 bytes read
Deserialize(raw) ==
    [f \in {HeaderFields[i] : i \in 1..Len(HeaderFields)} |->
        SubSeq(raw, FieldOffset(FieldIndex(f)) + 1,
               FieldOffset(FieldIndex(f)) + FieldWidth(f))]

Magic_newc == <<48, 55, 48, 55, 48, 49>>   \* b'070701'

Magic_crc == <<48, 55, 48, 55, 48, 50>>    \* b'070702'

ZeroDev == Repeat(48, 32)                  \* b'0' * 32

Zero8 == Repeat(48, 8)                     \* b'00000000'

\* CpioArchive.trailer_signature
trailer_signature == <<"T", "R", "A", "I", "L", "E", "R", "!", "!", "!">>

StartsWith(bytes, prefix) ==
    Len(bytes) >= Len(prefix) /\ SubSeq(bytes, 1, Len(prefix)) = prefix

RECURSIVE SumBytes(_)
SumBytes(data) ==
    IF Len(data) = 0 THEN 0 ELSE data[1] + SumBytes(Tail(data))

\* x & 0xFFFFFFFF, computed on the two 16-bit halves
Mask32(x) == (x % 65536) + 65536 * ((x \div 65536) % 65536)

\* class CpioEntry, as constructed by open (has_crc and size included)
Entry(name, data, mode, file_type, uid, gid, nlinks, mtime, size, has_crc, inode, dev) ==
    [name |-> name, data |-> data, mode |-> mode, file_type |-> file_type,
     uid |-> uid, gid |-> gid, number_of_links |-> nlinks,
     modification_time |-> mtime, size |-> size, has_crc |-> has_crc,
     inode |-> inode, dev |-> dev]

(***************************************************************************)
(* CpioEntryContainer as a value: [entries, inode_next].                   *)
(***************************************************************************)
EmptyContainer == [entries |-> <<>>, inode_next |-> 0]

Keys(entries) == {entries[i].name : i \in 1..Len(entries)}

IndexOf(entries, key) == CHOOSE i \in 1..Len(entries) : entries[i].name = key

Get(entries, key) == entries[IndexOf(entries, key)]

\* the change of _inode_next a buggy __setitem__ would make: no max()
NextInode_NoMax(inode_next_, inode) == inode + 1

\* __setitem__: self._inode_next = max(self._inode_next, value.inode + 1)
NextInode(inode_next_, inode) == Max(inode_next_, inode + 1)

\* CpioEntryContainer.__setitem__: an existing key keeps its position
SetItem(c, key, value) ==
    [entries |->
        IF key \in Keys(c.entries)
        THEN [c.entries EXCEPT ![IndexOf(c.entries, key)] = value]
        ELSE Append(c.entries, value),
     inode_next |-> NextInode(c.inode_next, value.inode)]

\* OrderedDict.pop(key)
Pop(entries, key) ==
    LET k == IndexOf(entries, key)
    IN  SubSeq(entries, 1, k - 1) \o SubSeq(entries, k + 1, Len(entries))

(***************************************************************************)
(* CpioArchive.write                                                       *)
(***************************************************************************)
\* write's __handle_padding: the number of zero bytes written
WritePadding(data_written) == (4 - (data_written % 4)) % 4

\* a write that forgets the file type: header.c_mode from entry.mode alone
WriteMode_NoType(entry) == entry.mode

\* header.c_mode = entry.mode | entry.file_type.value
WriteMode(entry) == BitOr(entry.mode, FileTypeValue(entry.file_type))

EntryHeader(entry) ==
    [c_magic    |-> IF entry.has_crc THEN Magic_crc ELSE Magic_newc,
     c_check    |-> IF entry.has_crc THEN Format08x(Mask32(SumBytes(entry.data)))
                    ELSE Zero8,
     c_filesize |-> Format08x(Len(entry.data)),
     c_namesize |-> Format08x(Len(Encode(entry.name)) + 1),
     c_mode     |-> Format08x(WriteMode(entry)),
     c_uid      |-> Format08x(entry.uid),
     c_gid      |-> Format08x(entry.gid),
     c_nlink    |-> Format08x(entry.number_of_links),
     c_mtime    |-> Format08x(entry.modification_time),
     c_ino      |-> Format08x(entry.inode),
     c_dev      |-> entry.dev]

TrailerHeader ==
    [c_magic    |-> Magic_newc,
     c_check    |-> Zero8,
     c_filesize |-> Zero8,
     c_namesize |-> Format08x(Len(Encode(trailer_signature)) + 1),
     c_mode     |-> Zero8,
     c_uid      |-> Zero8,
     c_gid      |-> Zero8,
     c_nlink    |-> Zero8,
     c_mtime    |-> Zero8,
     c_ino      |-> Zero8,
     c_dev      |-> ZeroDev]

\* one turn of write's loop: w = [out, bytes_written]
WriteEntry(w, entry) ==
    LET name_encoded == Encode(entry.name) \o <<0>>
        n1   == w.bytes_written + HeaderSize + Len(name_encoded)
        pad1 == WritePadding(n1)
        n2   == n1 + pad1 + Len(entry.data)
        pad2 == WritePadding(n2)
    IN  [out |-> w.out \o Serialize(EntryHeader(entry)) \o name_encoded
                 \o Repeat(0, pad1) \o entry.data \o Repeat(0, pad2),
         bytes_written |-> n2 + pad2]

RECURSIVE WriteEntries(_, _)
WriteEntries(w, entries) ==
    IF Len(entries) = 0 THEN w
    ELSE WriteEntries(WriteEntry(w, Head(entries)), Tail(entries))

\* CpioArchive.write(stream, entries): the bytes written to a fresh stream
Write(entries) ==
    LET w == WriteEntries([out |-> <<>>, bytes_written |-> 0], entries)
        name_encoded == Encode(trailer_signature) \o <<0>>
        n == w.bytes_written + HeaderSize + Len(name_encoded)
    IN  w.out \o Serialize(TrailerHeader) \o name_encoded \o Repeat(0, WritePadding(n))

(***************************************************************************)
(* CpioArchive.open                                                        *)
(***************************************************************************)
\* file.read(n) at position pos: short at the end of the stream
Read(file, pos, n) == SubSeq(file, pos + 1, Min(pos + n, Len(file)))

\* open's __handle_padding: the number of bytes skipped
OpenPadding(data_read) == (4 - (data_read % 4)) % 4

\* open ended by an exception
OpenRaise(what) == [ok |-> FALSE, error |-> what, entries |-> <<>>, inode_next |-> 0]

OpenReturn(c) == [ok |-> TRUE, error |-> "", entries |-> c.entries, inode_next |-> c.inode_next]

NumericFields == {"c_filesize", "c_namesize", "c_mode", "c_ino", "c_uid", "c_gid",
                  "c_nlink", "c_mtime"}

\* one turn of open's "while True" from stream position pos on. A header the
\* stream is too short for, and a name with bytes outside Chars, end in an
\* exception.
RECURSIVE OpenLoop(_, _, _, _)
OpenLoop(file, pos, data_processed, c) ==
    LET raw == Read(file, pos, HeaderSize)
    IN
    IF Len(raw) < HeaderSize THEN OpenRaise("short header")
    ELSE
    LET header == Deserialize(raw)
    IN
    IF ~StartsWith(header.c_magic, Magic_newc) /\ ~StartsWith(header.c_magic, Magic_crc)
    THEN OpenRaise("Wrong magic")
    ELSE IF \E f \in NumericFields : ~IsHex(header[f])
    THEN OpenRaise("invalid literal for int()")
    ELSE
    LET has_crc   == StartsWith(header.c_magic, Magic_crc)
        data_size == ParseHex(header.c_filesize)
        name_size == ParseHex(header.c_namesize)
        mode_raw  == ParseHex(header.c_mode)
        inode     == ParseHex(header.c_ino)
        uid       == ParseHex(header.c_uid)
        gid       == ParseHex(header.c_gid)
        nlinks    == ParseHex(header.c_nlink)
        mtime     == ParseHex(header.c_mtime)
        pos1      == pos + HeaderSize
        name_read == Read(file, pos1, name_size)
        name_raw  == SubSeq(name_read, 1, Len(name_read) - 1)
        pos2      == pos1 + Len(name_read)
        dp2       == data_processed + HeaderSize + name_size
        pad1      == OpenPadding(dp2)
        pos3      == Min(pos2 + pad1, Len(file))
        dp3       == dp2 + pad1
    IN
    IF ~IsText(name_raw) THEN OpenRaise("decode")
    ELSE
    LET name == Decode(name_raw)
    IN
    IF name = trailer_signature THEN OpenReturn(c)
    ELSE
    LET data == Read(file, pos3, data_size)
        pos4 == pos3 + Len(data)
    IN
    IF ~IsFileTypeValue(BitAnd(mode_raw, ModeMask_file_type))
    THEN OpenRaise("not a valid FileTypes")
    ELSE IF Len(data) < data_size THEN OpenRaise("Failed to read file data")
    ELSE
    LET entry == Entry(name, data, BitAnd(mode_raw, ModeMask_permissions),
                       FileTypeOf(BitAnd(mode_raw, ModeMask_file_type)),
                       uid, gid, nlinks, mtime, data_size, has_crc, inode,
                       header.c_dev)
        dp4  == dp3 + data_size
        pad2 == OpenPadding(dp4)
    IN  OpenLoop(file, Min(pos4 + pad2, Len(file)), dp4 + pad2, SetItem(c, name, entry))

\* CpioArchive.open(stream)
Open(file) == OpenLoop(file, 0, 0, EmptyContainer)

(***************************************************************************)
(* The archives the program is given.  An archive comes from another       *)
(* producer of the newc format, so the model builds it independently of    *)
(* write: hexadecimal digits in either case, padding bytes of any value,   *)
(* any check field, mode bits above the file type, repeated names.         *)
(***************************************************************************)
HexCharOf(d, upper) == IF d < 10 THEN 48 + d ELSE IF upper THEN 55 + d ELSE 87 + d

RECURSIVE HexField(_, _, _)
HexField(n, width, upper) ==
    IF width = 0 THEN <<>>
    ELSE HexField(n \div 16, width - 1, upper) \o <<HexCharOf(n % 16, upper)>>

Member(magic, name, mode_raw, ino, uid, gid, nlink, mtime, dev, check, data, upper, pad) ==
    [magic |-> magic, name |-> name, mode_raw |-> mode_raw, ino |-> ino, uid |-> uid,
     gid |-> gid, nlink |-> nlink, mtime |-> mtime, dev |-> dev, check |-> check,
     data |-> data, upper |-> upper, pad |-> pad]

MemberBytes(m, offset) ==
    LET name_bytes == Encode(m.name) \o <<0>>
        n1 == offset + HeaderSize + Len(name_bytes)
        p1 == (4 - (n1 % 4)) % 4
        n2 == n1 + p1 + Len(m.data)
        p2 == (4 - (n2 % 4)) % 4
    IN  m.magic \o HexField(m.ino, 8, m.upper) \o HexField(m.mode_raw, 8, m.upper)
        \o HexField(m.uid, 8, m.upper) \o HexField(m.gid, 8, m.upper)
        \o HexField(m.nlink, 8, m.upper) \o HexField(m.mtime, 8, m.upper)
        \o HexField(Len(m.data), 8, m.upper) \o m.dev
        \o HexField(Len(name_bytes), 8, m.upper) \o m.check
        \o name_bytes \o Repeat(m.pad, p1) \o m.data \o Repeat(m.pad, p2)

TrailerMember ==
    Member(Magic_newc, trailer_signature, 0, 0, 0, 0, 1, 0, ZeroDev, Zero8, <<>>, TRUE, 0)

RECURSIVE MembersBytes(_, _)
MembersBytes(members, offset) ==
    IF Len(members) = 0 THEN MemberBytes(TrailerMember, offset)
    ELSE LET b == MemberBytes(Head(members), offset)
         IN  b \o MembersBytes(Tail(members), offset + Len(b))

\* a well-formed newc stream holding the members, then the trailer
MakeArchive(members) == MembersBytes(members, 0)

\* device field of a member on device 8:1
Dev81 == Repeat(48, 7) \o <<56>> \o Repeat(48, 7) \o <<49>> \o Repeat(48, 16)

M_root == Member(Magic_newc, <<".">>, \o40755, 171, 0, 0, 2, 1000, Dev81, Zero8,
                 <<>>, TRUE, 0)

M_e == Member(Magic_newc, <<"e">>, \o40755, 3, 0, 0, 2, 1000, ZeroDev, Zero8,
              <<>>, FALSE, 0)

M_eh == Member(Magic_crc, <<"e", "/", "h">>, \o100644, 7, 1000, 1000, 1, 2748, Dev81,
               Format08x(108), <<49, 50, 10>>, TRUE, 0)

M_eh2 == Member(Magic_newc, <<"e", "/", "h">>, \o100600, 5, 0, 0, 1, 1000, ZeroDev,
                Zero8, <<51>>, FALSE, 255)

M_l == Member(Magic_newc, <<"l">>, \o120777, 9, 0, 0, 1, 1000, ZeroDev,
              <<70, 70, 70, 70, 70, 70, 70, 70>>, Encode(<<"e", "/", "h">>), TRUE, 32)

\* a character device, its raw mode with a bit above the file-type bits
M_n == Member(Magic_newc, <<"n">>, \o1020600, 2, 0, 0, 1, 1000, Dev81, Zero8,
              <<>>, FALSE, 0)

CodecMembers == {M_root, M_e, M_eh, M_eh2, M_l, M_n}

\* how many members a stream of a codec run holds at most
MaxMembers == 2

SeqsUpTo(S, n) == UNION {[1..k -> S] : k \in 0..n}

\* streams open cannot read: a wrong magic, a payload cut short
BadMagic(bytes) == [bytes EXCEPT ![6] = 51]

CutShort(bytes) == SubSeq(bytes, 1, Len(bytes) - (HeaderSize + 16))

MalformedStreams ==
    {BadMagic(MakeArchive(<<M_eh>>)), CutShort(MakeArchive(<<M_eh>>))}

CodecStreams == {MakeArchive(ms) : ms \in SeqsUpTo(CodecMembers, MaxMembers)}
                \cup MalformedStreams

(***************************************************************************)
(* pathlib: str(pathlib.Path(archive_path).parent).  A path is parsed into *)
(* its parts (empty parts and "." parts are dropped), the parent drops the *)
(* last part, and a path without parts prints as ".".                      *)
(***************************************************************************)
FirstSlash(s) ==
    IF \E i \in 1..Len(s) : s[i] = "/"
    THEN CHOOSE i \in 1..Len(s) : s[i] = "/" /\ \A j \in 1..(i - 1) : s[j] # "/"
    ELSE Len(s) + 1

RECURSIVE Parts(_)
Parts(s) ==
    IF Len(s) = 0 THEN <<>>
    ELSE LET k    == FirstSlash(s)
             part == SubSeq(s, 1, k - 1)
             rest == SubSeq(s, k + 1, Len(s))
         IN  (IF part = <<>> \/ part = <<".">> THEN <<>> ELSE <<part>>) \o Parts(rest)

RECURSIVE JoinParts(_)
JoinParts(parts) ==
    IF Len(parts) = 0 THEN <<".">>
    ELSE IF Len(parts) = 1 THEN parts[1]
    ELSE parts[1] \o <<"/">> \o JoinParts(Tail(parts))

Parent(archive_path) ==
    LET parts == Parts(archive_path)
    IN  JoinParts(SubSeq(parts, 1, Len(parts) - 1))

(***************************************************************************)
(* The local file add_entry is given, as pathlib reports it.  lkind is the *)
(* file's own type ("absent" when nothing has that name); a symlink has a  *)
(* target string and the type and contents of what it resolves to.         *)
(***************************************************************************)
LocalFile(lkind, perm, uid, gid, nlink, mtime, contents, target, tkind) ==
    [lkind |-> lkind, perm |-> perm, uid |-> uid, gid |-> gid, nlink |-> nlink,
     mtime |-> mtime, contents |-> contents, target |-> target, tkind |-> tkind]

\* path.exists(): follows symlinks
PathExists(f) ==
    /\ f.lkind # "absent"
    /\ f.lkind = "symlink" => f.tkind # "absent"

\* path.is_file(): follows symlinks
PathIsFile(f) == f.lkind = "regular" \/ (f.lkind = "symlink" /\ f.tkind = "regular")

\* path.is_symlink()
PathIsSymlink(f) == f.lkind = "symlink"

\* path.is_dir(): follows symlinks
PathIsDir(f) == f.lkind = "directory" \/ (f.lkind = "symlink" /\ f.tkind = "directory")

\* path.stat(follow_symlinks=False).st_mode: the file's own type and permissions
StatMode(f) == FileTypeValue(f.lkind) + f.perm

\* path.read_bytes(): of the file, or of the file a symlink resolves to
ReadBytes(f) == f.contents

\* str(path.readlink())
ReadLink(f) == f.target

F_regular == LocalFile("regular", \o644, 1000, 1000, 1, 1001, <<52, 50>>, <<>>, "absent")

F_directory == LocalFile("directory", \o755, 0, 0, 2, 1001, <<>>, <<>>, "absent")

F_link_to_file ==
    LocalFile("symlink", \o777, 0, 0, 1, 1001, <<52, 50>>, <<"x">>, "regular")

F_link_to_dir ==
    LocalFile("symlink", \o777, 0, 0, 1, 1001, <<>>, <<"e">>, "directory")

F_link_dangling ==
    LocalFile("symlink", \o777, 0, 0, 1, 1001, <<>>, <<"o">>, "absent")

F_fifo == LocalFile("named_pipe", \o600, 0, 0, 1, 1001, <<>>, <<>>, "absent")

F_absent == LocalFile("absent", 0, 0, 0, 0, 0, <<>>, <<>>, "absent")

LocalFiles ==
    {F_regular, F_directory, F_link_to_file, F_link_to_dir, F_link_dangling,
     F_fifo, F_absent}

(***************************************************************************)
(* CpioEntryContainer.add_entry, delete_entry, modify_entry on a container *)
(* value c = [entries, inode_next].                                        *)
(***************************************************************************)
\* an add_entry without the parent guard
ParentMissing_NoGuard(entries, archive_path) == FALSE

\* add_entry: str(parent) not in self
ParentMissing(entries, archive_path) == Parent(archive_path) \notin Keys(entries)

\* an add_entry that always takes a fresh inode and a zero device field
AddIdentity_AlwaysNew(c, archive_path) == [inode |-> c.inode_next, dev |-> ZeroDev]

\* add_entry: the inode and dev of the new entry
AddIdentity(c, archive_path) ==
    IF archive_path \in Keys(c.entries)
    THEN [inode |-> Get(c.entries, archive_path).inode,
          dev   |-> Get(c.entries, archive_path).dev]
    ELSE [inode |-> c.inode_next, dev |-> ZeroDev]

\* add_entry(path, archive_path): result "ok" (True), "fail" (False) or
\* "raise" (NotImplementedError), and the container afterwards
AddEntry(c, f, archive_path) ==
    IF ~PathExists(f) THEN [result |-> "fail", c |-> c]
    ELSE IF ParentMissing(c.entries, archive_path) THEN [result |-> "fail", c |-> c]
    ELSE
    LET id == AddIdentity(c, archive_path)
        \* CpioEntry(...): data, size, has_crc and file_type take their defaults
        entry == Entry(archive_path, <<>>, StatMode(f), "regular", f.uid, f.gid,
                       f.nlink, f.mtime, 0, FALSE, id.inode, id.dev)
        typed ==
            IF PathIsFile(f)
            THEN [entry EXCEPT !.file_type = "regular", !.data = ReadBytes(f)]
            ELSE IF PathIsSymlink(f)
            THEN [entry EXCEPT !.file_type = "symlink", !.data = Encode(ReadLink(f))]
            ELSE [entry EXCEPT !.file_type = "directory"]
        sized == [typed EXCEPT !.size = Len(typed.data)]
    IN
    IF ~PathIsFile(f) /\ ~PathIsSymlink(f) /\ ~PathIsDir(f)
    THEN [result |-> "raise", c |-> c]
    ELSE [result |-> "ok", c |-> SetItem(c, archive_path, sized)]

\* delete_entry(archive_path)
DeleteEntry(c, archive_path) ==
    IF archive_path \in Keys(c.entries)
    THEN [result |-> "ok", c |-> [c EXCEPT !.entries = Pop(c.entries, archive_path)]]
    ELSE [result |-> "fail", c |-> c]

\* an optional argument: Absent is Python's None, Given(x) the value x
Absent == <<>>

Given(x) == <<x>>

\* modify_entry(archive_path, update_uid, update_gid, update_mode, update_data):
\* the result is "ok" when updated is True
ModifyEntry(c, archive_path, update_uid, update_gid, update_mode, update_data) ==
    IF archive_path \notin Keys(c.entries) THEN [result |-> "fail", c |-> c]
    ELSE
    LET k  == IndexOf(c.entries, archive_path)
        e0 == c.entries[k]
        data_ok == update_data # Absent /\ e0.file_type = "regular"
        e1 == IF data_ok
              THEN [e0 EXCEPT !.data = update_data[1], !.size = Len(update_data[1])]
              ELSE e0
        e2 == IF update_uid # Absent THEN [e1 EXCEPT !.uid = update_uid[1]] ELSE e1
        e3 == IF update_gid # Absent THEN [e2 EXCEPT !.gid = update_gid[1]] ELSE e2
        e4 == IF update_mode # Absent THEN [e3 EXCEPT !.mode = update_mode[1]] ELSE e3
        updated == data_ok \/ update_uid # Absent \/ update_gid # Absent
                   \/ update_mode # Absent
    IN  [result |-> IF updated THEN "ok" ELSE "fail",
         c |-> [c EXCEPT !.entries[k] = e4]]

(***************************************************************************)
(* The directory Cpio.unpack writes into, as pathlib and the operating     *)
(* system present it.  A directory state is [root, tree]: root is the      *)
(* output directory itself, tree maps every name below it to a file.  A    *)
(* file is [lkind, perm, contents, target, tkind]: lkind is its own type   *)
(* ("absent" when nothing has that name); a symlink has a target string,   *)
(* and tkind says what it resolves to: a type outside the directory (perm  *)
(* and contents are then those of the file it resolves to), or "in_tree"   *)
(* when the target is a path relative to the link, looked up in the tree.  *)
(*                                                                         *)
(* The outcome of a file system call is [error, d]: the exception raised   *)
(* ("" when none) and the directory afterwards.  A call takes the outcome  *)
(* of the calls before it and does nothing once one of them raised, which  *)
(* is how an exception leaves the statements that follow it unexecuted.    *)
(***************************************************************************)
TargetFile(lkind, perm, contents, target, tkind) ==
    [lkind |-> lkind, perm |-> perm, contents |-> contents, target |-> target,
     tkind |-> tkind]

T_absent == TargetFile("absent", 0, <<>>, <<>>, "absent")

\* the names below the output directory
TargetNames == {<<"e">>, <<"e", "/", "h">>, <<"x">>, <<"l">>}

Dot == <<".">>

\* the process umask
Umask == \o022

\* permission bits of a file created with mode: mode & ~umask
Created(mode) == BitAnd(mode, \o777) - BitAnd(BitAnd(mode, \o777), Umask)

\* output_directory / name
PathKey(name) == JoinParts(Parts(name))

\* the file a path names, itself (no symlink followed)
NodeOf(d, key) ==
    IF key = Dot THEN d.root
    ELSE IF key \in TargetNames THEN d.tree[key]
    ELSE T_absent

\* the path a link at key points to when its target is relative
LinkKey(key, node) ==
    IF Parent(key) = Dot THEN PathKey(node.target)
    ELSE PathKey(Parent(key) \o <<"/">> \o node.target)

\* where a write to the path lands: at the end of a link inside the directory
WriteKey(key, node) ==
    IF node.lkind = "symlink" /\ node.tkind = "in_tree" THEN LinkKey(key, node)
    ELSE key

\* what is at the end of a path once the links inside the directory are followed
EndOf(f) ==
    IF f.lkind # "symlink" THEN f
    ELSE IF f.tkind = "in_tree" THEN T_absent
    ELSE TargetFile(f.tkind, f.perm, f.contents, <<>>, "absent")

\* the file a path resolves to, symlinks followed: its type, permissions, contents
Resolved(d, key) == EndOf(NodeOf(d, WriteKey(key, NodeOf(d, key))))

\* Path.exists(), Path.is_dir(): follow symlinks
TargetExists(d, key) == Resolved(d, key).lkind # "absent"

TargetIsDir(d, key) == Resolved(d, key).lkind = "directory"

FsOk(d) == [error |-> "", d |-> d]

FsRaise(e, d) == [error |-> e, d |-> d]

SetNode(d, key, node) ==
    IF key = Dot THEN [d EXCEPT !.root = node]
    ELSE [d EXCEPT !.tree[key] = node]

\* the error of creating a name in its parent: "" when the parent is a directory
ParentError(d, key) ==
    LET p == Resolved(d, Parent(key)).lkind
    IN  IF p = "directory" THEN ""
        ELSE IF p = "absent" THEN "FileNotFoundError"
        ELSE "NotADirectoryError"

\* the call raises e when e is an exception, and ends as r otherwise
Unless(e, d, r) == IF e # "" THEN FsRaise(e, d) ELSE r

\* Path.unlink(): removes the name, a symlink itself; a directory is refused
PathUnlink(r, key) ==
    LET node == NodeOf(r.d, key)
    IN  IF r.error # "" THEN r
        ELSE IF node.lkind = "absent" THEN FsRaise("FileNotFoundError", r.d)
        ELSE IF node.lkind = "directory" THEN FsRaise("IsADirectoryError", r.d)
        ELSE FsOk(SetNode(r.d, key, T_absent))

\* open(at, O_WRONLY | O_CREAT [| O_TRUNC]) and a write of data, file being
\* what is at the path; truncate says whether an existing file loses its
\* contents
WriteNode(d, at, file, data, truncate) ==
    IF file.lkind = "absent"
    THEN IF at # Dot /\ at \notin TargetNames THEN FsRaise("FileNotFoundError", d)
         ELSE Unless(ParentError(d, at), d,
                     FsOk(SetNode(d, at, TargetFile("regular", Created(\o666), data,
                                                    <<>>, "absent"))))
    ELSE IF file.lkind = "regular" \/ (file.lkind = "symlink" /\ file.tkind = "regular")
    THEN FsOk(IF truncate THEN SetNode(d, at, [file EXCEPT !.contents = data]) ELSE d)
    ELSE IF file.lkind = "symlink" /\ file.tkind = "absent"
    THEN FsOk(SetNode(d, at, [file EXCEPT !.tkind = "regular",
                                         !.perm = Created(\o666),
                                         !.contents = data]))
    ELSE IF file.lkind = "directory" \/ file.tkind = "directory"
    THEN FsRaise("IsADirectoryError", d)
    ELSE FsRaise("OSError", d)

OpenForWrite(r, key, data, truncate) ==
    LET at == WriteKey(key, NodeOf(r.d, key))
    IN  IF r.error # "" THEN r
        ELSE Unless(ParentError(r.d, key), r.d,
                    WriteNode(r.d, at, NodeOf(r.d, at), data, truncate))

\* Path.write_bytes(data)
PathWriteBytes(r, key, data) == OpenForWrite(r, key, data, TRUE)

\* Path.touch(exist_ok=True): os.utime succeeds on whatever the path resolves
\* to and nothing else is done; otherwise the file is created empty
PathTouch(r, key) ==
    IF r.error # "" \/ TargetExists(r.d, key) THEN r
    ELSE OpenForWrite(r, key, <<>>, FALSE)

\* Path.chmod(mode): of what the path resolves to
PathChmod(r, key, mode) ==
    LET at == WriteKey(key, NodeOf(r.d, key))
    IN  IF r.error # "" THEN r
        ELSE IF ~TargetExists(r.d, key) THEN FsRaise("FileNotFoundError", r.d)
        ELSE FsOk(SetNode(r.d, at, [NodeOf(r.d, at) EXCEPT
                                       !.perm = BitAnd(mode, \o7777)]))

\* os.mkdir(path, mode) where nothing has the name and the parent is a directory
MakeDir(r, key, mode) ==
    IF r.error # "" THEN r
    ELSE FsOk(SetNode(r.d, key, TargetFile("directory", Created(mode), <<>>, <<>>,
                                           "absent")))

\* Path.mkdir(mode, parents=True, exist_ok=True)
RECURSIVE PathMkdir(_, _, _)
PathMkdir(r, key, mode) ==
    IF r.error # "" THEN r
    ELSE IF NodeOf(r.d, key).lkind # "absent"
    THEN IF TargetIsDir(r.d, key) THEN r ELSE FsRaise("FileExistsError", r.d)
    ELSE IF key # Dot /\ key \notin TargetNames THEN FsRaise("OSError", r.d)
    ELSE IF ParentError(r.d, key) = "NotADirectoryError"
    THEN FsRaise("NotADirectoryError", r.d)
    ELSE IF ParentError(r.d, key) = "FileNotFoundError" /\ key # Dot
    THEN MakeDir(PathMkdir(r, Parent(key), \o777), key, mode)
    ELSE MakeDir(r, key, mode)

\* Path.symlink_to(target)
PathSymlinkTo(r, key, target) ==
    IF r.error # "" THEN r
    ELSE IF NodeOf(r.d, key).lkind # "absent" THEN FsRaise("FileExistsError", r.d)
    ELSE IF key \notin TargetNames THEN FsRaise("OSError", r.d)
    ELSE Unless(ParentError(r.d, key), r.d,
                FsOk(SetNode(r.d, key, TargetFile("symlink", \o777, <<>>, target,
                                                  "in_tree"))))

\* Cpio.unpack, the body of the loop for a regular file: lines 66 to 72
UnpackRegular(r, key, entry) ==
    PathChmod(IF entry.size # 0
              THEN PathWriteBytes(IF TargetExists(r.d, key) THEN PathUnlink(r, key)
                                  ELSE r,
                                  key, entry.data)
              ELSE PathTouch(r, key),
              key, entry.mode)

\* Cpio.unpack, the body of the loop for a symlink: lines 74 to 76
UnpackSymlink(r, key, entry) ==
    PathSymlinkTo(IF NodeOf(r.d, key).lkind = "symlink" THEN PathUnlink(r, key)
                  ELSE r,
                  key, Decode(entry.data))

\* Cpio.unpack, the body of the loop for one entry
UnpackEntry(r, entry) ==
    LET key == PathKey(entry.name)
    IN  IF entry.file_type = "directory" THEN PathMkdir(r, key, entry.mode)
        ELSE IF entry.file_type = "regular" THEN UnpackRegular(r, key, entry)
        ELSE IF entry.file_type = "symlink" THEN UnpackSymlink(r, key, entry)
        ELSE r

\* Cpio.unpack, the loop over self._container.values()
RECURSIVE UnpackLoop(_, _)
UnpackLoop(r, entries) ==
    IF Len(entries) = 0 \/ r.error # "" THEN r
    ELSE UnpackLoop(UnpackEntry(r, Head(entries)), Tail(entries))

\* how unpack ended ("unpacked" when the loop ran to its end, "refused" when
\* it returned before the loop, "raised" when an exception left it) and the
\* directory afterwards
UnpackResult(status, r) ==
    [status |-> IF r.error # "" THEN "raised" ELSE status, error |-> r.error,
     d |-> r.d]

\* Cpio.unpack(output_directory, force)
Unpack(entries, d, force_) ==
    LET made == IF TargetExists(d, Dot) THEN FsOk(d)
                ELSE PathMkdir(FsOk(d), Dot, \o777)
    IN  IF made.error # "" \/ ~TargetIsDir(made.d, Dot)
        THEN UnpackResult("refused", made)
        ELSE IF (\E n \in TargetNames : made.d.tree[n].lkind # "absent") /\ ~force_
        THEN UnpackResult("refused", made)
        ELSE UnpackResult("unpacked", UnpackLoop(made, entries))

\* no unpack run
NoDirectory == [root |-> T_absent, tree |-> [n \in TargetNames |-> T_absent]]

UnpackIdle ==
    /\ output_directory = NoDirectory
    /\ force = FALSE
    /\ upc = "idle"
    /\ unpack_error = ""
    /\ directory_before = NoDirectory

(***************************************************************************)
(* class Cpio: the session.  A file's content is [exists, gz, body]: gz    *)
(* says that body went through gzip.compress.                              *)
(***************************************************************************)
ArchivePath == "rootfs.cpio"   \* Cpio._path

SaveToPath == "alt.cpio"       \* the --output of the command line

OutputPath == "out.cpio"       \* an output argument of save_changes

FileNames == {ArchivePath, SaveToPath, OutputPath}

NoFile == [exists |-> FALSE, gz |-> FALSE, body |-> <<>>]

\* gzip.compress(data, compresslevel=9)
GzipCompress(data) == [exists |-> TRUE, gz |-> TRUE, body |-> data]

RawBytes(data) == [exists |-> TRUE, gz |-> FALSE, body |-> data]

\* gzip.decompress(content)
GzipDecompress(content) == content.body

\* save_changes: data, after the optional compression
SavedData(entries, gzip_) ==
    IF gzip_ THEN GzipCompress(Write(entries)) ELSE RawBytes(Write(entries))

\* a save_changes that looks at the dirty flag before the destinations
SavePath_PendingFirst(output, save_to_, pending) ==
    IF ~pending THEN None
    ELSE IF output # None THEN output
    ELSE IF save_to_ # None THEN save_to_
    ELSE ArchivePath

\* save_changes: the path written, None when the write is skipped
SavePath(output, save_to_, pending) ==
    IF output # None THEN output
    ELSE IF save_to_ # None THEN save_to_
    ELSE IF ~pending THEN None
    ELSE ArchivePath

\* save_changes(output) on the session [entries, gzip, save_to, pending, files]:
\* the files and the dirty flag afterwards
SaveChanges(entries, gzip_, save_to_, pending, files_, output) ==
    LET data == SavedData(entries, gzip_)
        path == SavePath(output, save_to_, pending)
    IN  IF path = None
        THEN [files |-> files_, pending |-> pending, wrote |-> FALSE]
        ELSE [files |-> [files_ EXCEPT ![path] = data], pending |-> FALSE,
              wrote |-> TRUE]

\* Cpio.add_entry / delete_entry / modify_entry: what the caller sees of the
\* container's result: a failure ends in exit(1)
Outcome(result) ==
    CASE result = "ok"    -> "returned"
      [] result = "fail"  -> "SystemExit"
      [] result = "raise" -> "NotImplementedError"

\* self._changes_pending = True, reached only when the container call succeeded
PendingAfter(result, pending) == IF result = "ok" THEN TRUE ELSE pending

\* the archive the session is opened on
InitialMembers == <<M_root, M_e, M_eh>>

AddPaths == {<<"e", "/", "n">>, <<"e", "/", "h">>, <<"o", "/", "x">>, <<"n">>}

DeletePaths == {<<"e">>, <<"e", "/", "h">>, <<"o">>}

ModifyPaths == {<<"e">>, <<"e", "/", "h">>, <<"o">>}

ModifyArg(uid, gid, mode, data) == [uid |-> uid, gid |-> gid, mode |-> mode, data |-> data]

ModifyArgs ==
    {ModifyArg(Absent, Absent, Absent, Absent),
     ModifyArg(Given(7), Absent, Absent, Absent),
     ModifyArg(Absent, Absent, Given(\o600), Absent),
     ModifyArg(Absent, Absent, Given(\o100755), Absent),
     ModifyArg(Absent, Absent, Absent, Given(<<53>>)),
     ModifyArg(Given(7), Absent, Absent, Given(<<53>>)),
     ModifyArg(Given(7), Given(7), Given(\o600), Given(<<>>))}

\* how many calls the command loop issues at most
MaxOps == 2

Call(op, path, file, arg, output, result, outcome) ==
    [op |-> op, path |-> path, file |-> file, arg |-> arg, output |-> output,
     result |-> result, outcome |-> outcome]

NoArg == ModifyArg(Absent, Absent, Absent, Absent)

Snapshot ==
    [container |-> container, inode_next |-> inode_next, files |-> files,
     changes_pending |-> changes_pending, mutated |-> mutated, pc |-> pc]

CodecIdle ==
    /\ stream = <<>>
    /\ opened = OpenRaise("")
    /\ written = <<>>
    /\ reopened = OpenRaise("")
    /\ cpc = "idle"

\* the sessions: Cpio(path, use_gzip, save_to=...)
SessionConfigs ==
    {[use_gzip |-> TRUE, save_to |-> None],
     [use_gzip |-> FALSE, save_to |-> None],
     [use_gzip |-> TRUE, save_to |-> SaveToPath]}

\* Cpio.__init__ on the archive file
Init ==
    /\ \E cfg \in SessionConfigs :
         /\ use_gzip = cfg.use_gzip
         /\ save_to = cfg.save_to
    /\ files = [n \in FileNames |->
                  IF n = ArchivePath
                  THEN (IF use_gzip THEN GzipCompress(MakeArchive(InitialMembers))
                        ELSE RawBytes(MakeArchive(InitialMembers)))
                  ELSE NoFile]
    /\ LET data == IF use_gzip THEN GzipDecompress(files[ArchivePath])
                   ELSE files[ArchivePath].body
           c == Open(data)
       IN  /\ container = c.entries
           /\ inode_next = c.inode_next
    /\ changes_pending = FALSE
    /\ mutated = FALSE
    /\ pc = "running"
    /\ nops = 0
    /\ last = Call("init", <<>>, F_absent, NoArg, None, "ok", "returned")
    /\ prev = [container |-> <<>>, inode_next |-> 0, files |-> files,
               changes_pending |-> FALSE, mutated |-> FALSE, pc |-> pc]
    /\ CodecIdle
    /\ UnpackIdle

\* the effect of a mutating call whose container call ended as r
Mutation(r, call) ==
    /\ container' = r.c.entries
    /\ inode_next' = r.c.inode_next
    /\ changes_pending' = PendingAfter(r.result, changes_pending)
    /\ mutated' = (mutated \/ r.result = "ok")
    /\ pc' = IF r.result = "ok" THEN "running" ELSE "unwinding"
    /\ last' = call
    /\ prev' = Snapshot
    /\ nops' = nops + 1
    /\ UNCHANGED <<use_gzip, save_to, files, codecVars, unpackVars>>

\* Cpio.add_entry(file, path)
CpioAddEntry ==
    /\ pc = "running"
    /\ nops < MaxOps
    /\ \E f \in LocalFiles, path \in AddPaths :
         LET r == AddEntry([entries |-> container, inode_next |-> inode_next], f, path)
         IN  Mutation(r, Call("add", path, f, NoArg, None, r.result, Outcome(r.result)))

\* Cpio.delete_entry(path)
CpioDeleteEntry ==
    /\ pc = "running"
    /\ nops < MaxOps
    /\ \E path \in DeletePaths :
         LET r == DeleteEntry([entries |-> container, inode_next |-> inode_next], path)
         IN  Mutation(r, Call("delete", path, F_absent, NoArg, None, r.result,
                              Outcome(r.result)))

\* Cpio.modify_entry(path, uid, gid, mode, data)
CpioModifyEntry ==
    /\ pc = "running"
    /\ nops < MaxOps
    /\ \E path \in ModifyPaths, a \in ModifyArgs :
         LET r == ModifyEntry([entries |-> container, inode_next |-> inode_next],
                              path, a.uid, a.gid, a.mode, a.data)
         IN  Mutation(r, Call("modify", path, F_absent, a, None, r.result,
                              Outcome(r.result)))

\* Cpio.save_changes(output)
CpioSaveChanges ==
    /\ pc = "running"
    /\ nops < MaxOps
    /\ \E output \in {None, OutputPath} :
         LET r == SaveChanges(container, use_gzip, save_to, changes_pending, files, output)
         IN  /\ files' = r.files
             /\ changes_pending' = r.pending
             /\ mutated' = (mutated /\ ~r.wrote)
             /\ last' = Call("save", <<>>, F_absent, NoArg, output, "ok", "returned")
    /\ prev' = Snapshot
    /\ nops' = nops + 1
    /\ UNCHANGED <<container, inode_next, use_gzip, save_to, pc, codecVars, unpackVars>>

\* the test a buggy __exit__ would make: nothing is saved when an exception
\* leaves the with block
ExitSaves_NormalOnly(pending, exc) == pending /\ ~exc

\* __exit__(exc_type, exc_val, exc_tb): if self._changes_pending, whether or
\* not an exception is passed
ExitSaves(pending, exc) == pending

\* Cpio.__exit__: the with block of cpio-tools.py is left, after the last task
\* or by the exception of a failed call
CpioExit ==
    /\ pc \in {"running", "unwinding"}
    /\ LET r == IF ExitSaves(changes_pending, pc = "unwinding")
                THEN SaveChanges(container, use_gzip, save_to, changes_pending, files, None)
                ELSE [files |-> files, pending |-> changes_pending, wrote |-> FALSE]
       IN  /\ files' = r.files
           /\ changes_pending' = r.pending
           /\ mutated' = (mutated /\ ~r.wrote)
    /\ last' = Call("exit", <<>>, F_absent, NoArg, None, "ok", "returned")
    /\ prev' = Snapshot
    /\ pc' = "terminated"
    /\ UNCHANGED <<container, inode_next, use_gzip, save_to, nops, codecVars,
                   unpackVars>>

Next ==
    \/ CpioAddEntry
    \/ CpioDeleteEntry
    \/ CpioModifyEntry
    \/ CpioSaveChanges
    \/ CpioExit

Spec == Init /\ [][Next]_vars

(***************************************************************************)
(* Codec runs: open a stream, write what was read, open what was written.  *)
(***************************************************************************)
SessionIdle ==
    /\ container = <<>>
    /\ inode_next = 0
    /\ changes_pending = FALSE
    /\ use_gzip = FALSE
    /\ save_to = None
    /\ files = [n \in FileNames |-> NoFile]
    /\ pc = "idle"
    /\ nops = 0
    /\ last = Call("init", <<>>, F_absent, NoArg, None, "ok", "returned")
    /\ prev = [container |-> <<>>, inode_next |-> 0, files |-> files,
               changes_pending |-> FALSE, mutated |-> FALSE, pc |-> pc]
    /\ mutated = FALSE

InitCodec ==
    /\ SessionIdle
    /\ UnpackIdle
    /\ stream \in CodecStreams
    /\ opened = OpenRaise("")
    /\ written = <<>>
    /\ reopened = OpenRaise("")
    /\ cpc = "start"

CodecOpen ==
    /\ cpc = "start"
    /\ opened' = Open(stream)
    /\ cpc' = "opened"
    /\ UNCHANGED <<stream, written, reopened, sessionVars, unpackVars>>

CodecWrite ==
    /\ cpc = "opened"
    /\ opened.ok
    /\ written' = Write(opened.entries)
    /\ cpc' = "written"
    /\ UNCHANGED <<stream, opened, reopened, sessionVars, unpackVars>>

CodecReopen ==
    /\ cpc = "written"
    /\ reopened' = Open(written)
    /\ cpc' = "reopened"
    /\ UNCHANGED <<stream, opened, written, sessionVars, unpackVars>>

NextCodec == CodecOpen \/ CodecWrite \/ CodecReopen

SpecCodec == InitCodec /\ [][NextCodec]_vars

(***************************************************************************)
(* Unpack runs: a session is opened on an archive and unpacks it into a    *)
(* directory that may hold files already.                                  *)
(***************************************************************************)
\* an empty regular file
M_x == Member(Magic_newc, <<"x">>, \o100600, 11, 0, 0, 1, 1000, ZeroDev, Zero8,
              <<>>, FALSE, 0)

\* the archives a session is opened on
UnpackArchives == SeqsUpTo({M_root, M_e, M_eh, M_x, M_l, M_n}, MaxMembers)

\* a regular file holding b'old'
T_regular == TargetFile("regular", \o640, <<111, 108, 100>>, <<>>, "absent")

T_directory == TargetFile("directory", \o755, <<>>, <<>>, "absent")

\* a link to a regular file outside the directory, holding b'old'
T_link_to_file ==
    TargetFile("symlink", \o640, <<111, 108, 100>>, <<"/", "o">>, "regular")

\* the directories unpack is given: one that does not exist, a regular file,
\* and directories holding e (with e/h below it), x and l
UnpackTargets ==
    {NoDirectory, [NoDirectory EXCEPT !.root = T_regular]}
    \cup {[root |-> T_directory,
           tree |-> [n \in TargetNames |->
                       IF n = <<"e">> THEN e[1]
                       ELSE IF n = <<"e", "/", "h">> THEN e[2]
                       ELSE IF n = <<"x">> THEN x
                       ELSE l]] :
            e \in {<<T_absent, T_absent>>, <<T_directory, T_absent>>,
                   <<T_directory, T_regular>>, <<T_directory, T_directory>>,
                   <<T_regular, T_absent>>},
            x \in {T_absent, T_regular, T_directory, T_link_to_file,
                   [T_link_to_file EXCEPT !.tkind = "absent", !.contents = <<>>]},
            l \in {T_absent, T_regular, T_link_to_file}}

\* Cpio(path, use_gzip=False) on an archive, and the arguments of unpack
InitUnpack ==
    /\ use_gzip = FALSE
    /\ save_to = None
    /\ \E ms \in UnpackArchives :
         /\ files = [n \in FileNames |->
                       IF n = ArchivePath THEN RawBytes(MakeArchive(ms)) ELSE NoFile]
         /\ LET c == Open(files[ArchivePath].body)
            IN  /\ container = c.entries
                /\ inode_next = c.inode_next
    /\ changes_pending = FALSE
    /\ mutated = FALSE
    /\ pc = "running"
    /\ nops = 0
    /\ last = Call("init", <<>>, F_absent, NoArg, None, "ok", "returned")
    /\ prev = [container |-> <<>>, inode_next |-> 0, files |-> files,
               changes_pending |-> FALSE, mutated |-> FALSE, pc |-> pc]
    /\ CodecIdle
    /\ output_directory \in UnpackTargets
    /\ force \in BOOLEAN
    /\ upc = "ready"
    /\ unpack_error = ""
    /\ directory_before = output_directory

\* Cpio.unpack(output_directory, force)
CpioUnpack ==
    /\ pc = "running"
    /\ upc = "ready"
    /\ LET r == Unpack(container, output_directory, force)
       IN  /\ output_directory' = r.d
           /\ upc' = r.status
           /\ unpack_error' = r.error
           /\ pc' = IF r.status = "raised" THEN "unwinding" ELSE "running"
           /\ last' = Call("unpack", <<>>, F_absent, NoArg, None,
                           IF r.status = "raised" THEN "raise" ELSE "ok",
                           IF r.status = "raised" THEN r.error ELSE "returned")
    /\ directory_before' = output_directory
    /\ prev' = Snapshot
    /\ nops' = nops + 1
    /\ UNCHANGED <<container, inode_next, changes_pending, use_gzip, save_to, files,
                   mutated, force, codecVars>>

NextUnpack == CpioUnpack \/ CpioExit

SpecUnpack == InitUnpack /\ [][NextUnpack]_vars

(***************************************************************************)
(* The properties.                                                         *)
(***************************************************************************)
EntryAt(entries, key) == Get(entries, key)

Mutators == {"add", "delete", "modify"}

SameEntry(a, b) ==
    /\ a.name = b.name
    /\ a.data = b.data
    /\ a.mode = b.mode
    /\ a.file_type = b.file_type
    /\ a.uid = b.uid
    /\ a.gid = b.gid
    /\ a.number_of_links = b.number_of_links
    /\ a.modification_time = b.modification_time
    /\ a.size = b.size
    /\ a.inode = b.inode
    /\ a.dev = b.dev

\* C1: when open read a stream, opening the bytes write produced from its
\* result succeeds and yields the same entries in the same order, each equal
\* in name, data, mode, file_type, uid, gid, number_of_links,
\* modification_time, size, inode and dev.
C1_RoundTrip ==
    cpc = "reopened" =>
        /\ reopened.ok
        /\ Len(reopened.entries) = Len(opened.entries)
        /\ \A i \in 1..Len(opened.entries) :
               SameEntry(reopened.entries[i], opened.entries[i])

\* C1 witness: a round trip of two entries, one with a checksum and a payload,
\* whose rewritten bytes differ from the bytes read.
C1_Witness ==
    /\ cpc = "reopened"
    /\ reopened.ok
    /\ Len(opened.entries) = 2
    /\ written # stream
    /\ \E i \in 1..Len(opened.entries) :
           opened.entries[i].has_crc /\ Len(opened.entries[i].data) > 0

\* C2: every entry whose name has a non-empty parent path has an entry named
\* by that parent path in the container.
C2_ParentsPresent ==
    \A i \in 1..Len(container) :
        Len(Parts(container[i].name)) > 1 =>
            Parent(container[i].name) \in Keys(container)

\* C3: every entry's mode holds permission bits only, and a modify_entry that
\* sets mode leaves file_type as it was.
C3_ModeHasNoTypeBits ==
    /\ \A i \in 1..Len(container) :
           BitAnd(container[i].mode, ModeMask_file_type) = 0
    /\ (last.op = "modify" /\ last.result = "ok" /\ last.arg.mode # Absent) =>
           EntryAt(container, last.path).file_type
               = EntryAt(prev.container, last.path).file_type

\* C4: _inode_next is above the inode of every entry present, and an add_entry
\* of a new path gives it an inode no other present entry has.
C4_InodeNextAboveAll ==
    /\ \A i \in 1..Len(container) : container[i].inode < inode_next
    /\ (last.op = "add" /\ last.result = "ok" /\ last.path \notin Keys(prev.container)) =>
           \A i \in 1..Len(container) :
               container[i].name # last.path =>
                   container[i].inode # EntryAt(container, last.path).inode

\* C4 witness: a new path was added after an entry had been deleted.
C4_Witness ==
    /\ last.op = "add"
    /\ last.result = "ok"
    /\ last.path \notin Keys(prev.container)
    /\ Len(prev.container) = Len(InitialMembers) - 1
    /\ EntryAt(container, last.path).inode = prev.inode_next

\* C5: add_entry with an archive path whose parent is not a key of the
\* container returns failure and leaves entries, order and next inode as they
\* were.
C5_AddWithoutParentFails ==
    (last.op = "add" /\ Parent(last.path) \notin Keys(prev.container)) =>
        /\ last.result = "fail"
        /\ container = prev.container
        /\ inode_next = prev.inode_next

\* C5 witness: an existing local file was added under a missing parent.
C5_Witness ==
    /\ last.op = "add"
    /\ PathExists(last.file)
    /\ Parent(last.path) \notin Keys(prev.container)
    /\ last.result = "fail"

\* C6: a successful add_entry at a path already present keeps the inode and
\* dev of the entry it replaces, leaves the next inode as it was and leaves
\* every other entry, and the order, unchanged.
C6_OverwriteKeepsIdentity ==
    (last.op = "add" /\ last.result = "ok" /\ last.path \in Keys(prev.container)) =>
        LET k == IndexOf(prev.container, last.path)
        IN  /\ Len(container) = Len(prev.container)
            /\ container[k].name = last.path
            /\ container[k].inode = prev.container[k].inode
            /\ container[k].dev = prev.container[k].dev
            /\ inode_next = prev.inode_next
            /\ \A i \in 1..Len(container) : i # k => container[i] = prev.container[i]

\* C6 witness: an entry with a non-zero device field was overwritten by an
\* entry of another content.
C6_Witness ==
    /\ last.op = "add"
    /\ last.result = "ok"
    /\ last.path \in Keys(prev.container)
    /\ EntryAt(prev.container, last.path).dev # ZeroDev
    /\ EntryAt(container, last.path) # EntryAt(prev.container, last.path)

\* C7: save_changes writes nothing when no mutation succeeded since load or
\* the last write and neither an output argument nor save_to is given;
\* otherwise it writes the whole serialization to the chosen path (output,
\* else save_to, else the archive path), touches no other file and leaves the
\* dirty flag cleared; every successful add, delete and modify sets the flag.
C7_SaveWritesOrSkips ==
    /\ last.op = "save" =>
           IF ~prev.mutated /\ last.output = None /\ save_to = None
           THEN files = prev.files
           ELSE LET path == IF last.output # None THEN last.output
                            ELSE IF save_to # None THEN save_to
                            ELSE ArchivePath
                IN  /\ files[path].exists
                    /\ files[path].gz = use_gzip
                    /\ files[path].body = Write(container)
                    /\ \A n \in FileNames \ {path} : files[n] = prev.files[n]
                    /\ ~changes_pending
    /\ (last.op \in Mutators /\ last.result = "ok") => changes_pending

\* C7 witness: after a successful mutation, a save without destination
\* replaced the archive file.
C7_Witness ==
    /\ last.op = "save"
    /\ prev.mutated
    /\ last.output = None
    /\ save_to = None
    /\ files[ArchivePath] # prev.files[ArchivePath]
    /\ ~changes_pending

\* C8: a failed add, delete or modify of the session is returned to the
\* caller, and the session goes on running.
C8_FailureReturnsToCaller ==
    (last.op \in Mutators /\ last.result # "ok") =>
        /\ last.outcome = "returned"
        /\ pc = "running"

\* C9: a modify_entry that supplies data for an entry that is not a regular
\* file is rejected and changes nothing, whatever else it supplies.
C9_DataOnNonRegularRejected ==
    (/\ last.op = "modify"
     /\ last.arg.data # Absent
     /\ last.path \in Keys(prev.container)
     /\ EntryAt(prev.container, last.path).file_type # "regular") =>
        /\ last.result = "fail"
        /\ container = prev.container

\* C10: add_entry classifies the source by its own type: a symbolic link
\* (whatever it points to) becomes a symlink entry holding the link target, a
\* regular file a regular entry holding its contents, a directory a directory
\* entry without data.
C10_AddClassifiesOwnType ==
    (last.op = "add" /\ Parent(last.path) \in Keys(prev.container)) =>
        CASE last.file.lkind = "symlink" ->
                 /\ last.result = "ok"
                 /\ EntryAt(container, last.path).file_type = "symlink"
                 /\ EntryAt(container, last.path).data = Encode(last.file.target)
          [] last.file.lkind = "regular" ->
                 /\ last.result = "ok"
                 /\ EntryAt(container, last.path).file_type = "regular"
                 /\ EntryAt(container, last.path).data = last.file.contents
          [] last.file.lkind = "directory" ->
                 /\ last.result = "ok"
                 /\ EntryAt(container, last.path).file_type = "directory"
                 /\ EntryAt(container, last.path).data = <<>>
          [] OTHER -> TRUE

\* C11: when unpack has run its loop to the end, every regular-file entry of
\* the container whose path below the output directory was not taken by a
\* directory is a regular file there (read through a symlink, if one is
\* there), and that file holds exactly the entry's data, whatever file the
\* path named before.
C11_UnpackReplacesFiles ==
    upc = "unpacked" =>
        \A i \in 1..Len(container) :
            LET key == PathKey(container[i].name)
                f   == Resolved(output_directory, key)
            IN  (/\ container[i].file_type = "regular"
                 /\ NodeOf(directory_before, key).lkind # "directory") =>
                    /\ f.lkind = "regular"
                    /\ f.contents = container[i].data

\* C12: when the with block is left, normally or by the exception of a failed
\* call, and a mutation succeeded since load or the last write, the
\* serialization of the container with those edits is written to save_to, else
\* to the archive path, no other file is touched and the dirty flag is
\* cleared; when no mutation succeeded, leaving the block writes nothing.
C12_ExitSavesPendingEdits ==
    last.op = "exit" =>
        IF prev.mutated
        THEN LET path == IF save_to # None THEN save_to ELSE ArchivePath
             IN  /\ files[path].exists
                 /\ files[path].gz = use_gzip
                 /\ files[path].body = Write(container)
                 /\ \A n \in FileNames \ {path} : files[n] = prev.files[n]
                 /\ ~changes_pending
                 /\ container = prev.container
        ELSE files = prev.files

\* C12 witness: after a successful edit a later call failed, the with block was
\* left by its exception, and the archive file was replaced.
C12_Witness ==
    /\ last.op = "exit"
    /\ prev.pc = "unwinding"
    /\ prev.mutated
    /\ save_to = None
    /\ files[ArchivePath] # prev.files[ArchivePath]
    /\ files[ArchivePath].body = Write(container)

=============================================================================
